---- MODULE Spec2Model ----
(***************************************************************************)
(* Staged evaluation pipeline of the NZ property analyser:                 *)
(* listing store, hard filter chain, enrichment caching, scoring, store,   *)
(* global re-ranking and the background tasks that drive them.             *)
(*                                                                         *)
(* Conventions: money is in whole dollars, growth rates are x100,          *)
(* composite scores are x10 (one decimal).  A nullable numeric column is   *)
(* NULL, an empty string is "", an empty JSON list is << >>.               *)
(***************************************************************************)
EXTENDS Integers, Sequences, FiniteSets, TLC

\* ---------------------------------------------------------------- bounds
\* the number of _store_listing calls (creations and updates) in a behaviour
MaxScrapes == 2

\* the store holds at most two listings; ids are given in insertion order
ListingIds == {1, 2}
Workers == {"w1", "w2"}
SeqWorkers == {"w1"}

\* ------------------------------------------------------ program constants
NULL == -1
max_price == 500000
min_population == 50000
VisionPhotoLimit == 6
DEFAULT_MIN == 600
subdivision_costs == 80000

\* settings.vision_provider: the rate-limited provider
vision_provider == "openai"

REJECT == "REJECT"
PASS == "PASS"

REJECT_TITLE_TYPES == {"unit title", "leasehold", "cross lease", "cross-lease"}

\* the entries of the population tables used by the listings of this model
NZ_TA_POPULATIONS ==
  [k \in {"auckland", "gore", "southland"} |->
     CASE k = "auckland" -> 1720000
       [] k = "gore" -> 13000
       [] k = "southland" -> 33000]

NZ_TA_GROWTH == [k \in {"auckland"} |-> 108]

\* ------------------------------------------------------------ helpers
Range(s) == {s[i] : i \in 1..Len(s)}

Min(a, b) == IF a < b THEN a ELSE b

\* photos[:6]
FirstPhotos(photos) == SubSeq(photos, 1, Min(Len(photos), VisionPhotoLimit))

\* sha256(json.dumps(sorted(urls))): the digest is injective on the
\* canonical form, so the canonical form itself stands for the digest
_compute_photos_hash(photos) == SortSeq(FirstPhotos(photos), LAMBDA a, b : a < b)

_compute_subdivision_input_hash(ld) ==
  <<ld.address, ld.district, ld.region, ld.land_area>>

\* ------------------------------------------------------------ price filter
\* a capital value string is carried as the number its first digit run
\* denotes (0 when the string is empty or has no digits)
_parse_capital_value(cv) == IF cv > 1000 THEN cv ELSE NULL

RECURSIVE SumSeq(_)
SumSeq(s) == IF s = << >> THEN 0 ELSE Head(s) + SumSeq(Tail(s))

\* a market estimate string is carried as the sequence of its numeric
\* matches, each with the digits' value and whether a K follows
MarketValue(m) == IF m.k \/ m.num < 1000 THEN m.num * 1000 ELSE m.num

_parse_market_estimate(est) ==
  LET values == SelectSeq([i \in 1..Len(est) |-> MarketValue(est[i])],
                          LAMBDA v : v >= 10000)
  IN IF values = << >> THEN NULL ELSE SumSeq(values) \div Len(values)

get_effective_asking_price(l) ==
  IF l.asking_price # NULL /\ l.asking_price > 0 THEN l.asking_price
  ELSE IF l.capital_value # 0 /\ _parse_capital_value(l.capital_value) # NULL
       THEN _parse_capital_value(l.capital_value)
  ELSE IF l.estimated_market_price # << >>
          /\ _parse_market_estimate(l.estimated_market_price) # NULL
       THEN _parse_market_estimate(l.estimated_market_price)
  ELSE NULL

\* a price filter that also rejects a price equal to the ceiling
filter_price_ge(l) ==
  LET asking_price == get_effective_asking_price(l)
  IN IF asking_price = NULL THEN <<PASS, "">>
     ELSE IF asking_price >= max_price THEN <<REJECT, "Over budget">>
     ELSE <<PASS, "">>

filter_price(l) ==
  LET asking_price == get_effective_asking_price(l)
  IN IF asking_price = NULL THEN <<PASS, "">>
     ELSE IF asking_price > max_price THEN <<REJECT, "Over budget">>
     ELSE <<PASS, "">>

\* ------------------------------------------------------------ title filter
\* the reject type a free text mentions ("" when it mentions none)
TextTitleMention(text) ==
  IF text = "cross lease section" THEN "cross lease" ELSE ""

filter_title(l) ==
  IF l.title_type = ""
  THEN IF TextTitleMention(l.description) \in REJECT_TITLE_TYPES
       THEN <<REJECT, "Title type detected in description">>
       ELSE <<PASS, "">>
  ELSE IF l.title_type \in REJECT_TITLE_TYPES
       THEN <<REJECT, "Rejected title type">>
       ELSE <<PASS, "">>

\* ------------------------------------------------------- population filter
_get_population(district) ==
  IF district \in DOMAIN NZ_TA_POPULATIONS THEN NZ_TA_POPULATIONS[district] ELSE NULL

_get_growth_rate(district) ==
  IF district \in DOMAIN NZ_TA_GROWTH THEN NZ_TA_GROWTH[district] ELSE 102

filter_population(l) ==
  LET population == IF _get_population(l.district) # NULL
                    THEN _get_population(l.district)
                    ELSE _get_population(l.region)
      growth_rate == IF _get_growth_rate(l.district) # 0
                     THEN _get_growth_rate(l.district)
                     ELSE _get_growth_rate(l.region)
  IN IF population = NULL
     THEN <<PASS, "", [current_pop |-> NULL, growth_rate |-> NULL]>>
     ELSE IF population < min_population
     THEN <<REJECT, "Population below threshold",
            [current_pop |-> population, growth_rate |-> growth_rate]>>
     ELSE IF growth_rate < 98
     THEN <<REJECT, "Declining population",
            [current_pop |-> population, growth_rate |-> growth_rate]>>
     ELSE <<PASS, "", [current_pop |-> population, growth_rate |-> growth_rate]>>

\* ------------------------------------------------------------ enrichment
_listing_to_dict(l) ==
  [address |-> l.address, district |-> l.district, region |-> l.region,
   land_area |-> l.land_area, asking_price |-> get_effective_asking_price(l),
   description |-> l.description]

\* what the image-analysis collaborator may answer for a photo list: the
\* mock provider always answers MODERATE, a real provider answers one of
\* RenoLevels
RenoLevels == {"MODERATE", "MAJOR"}

VisionAnswers(provider, photos) ==
  IF photos = << >> \/ provider = "mock" THEN {"MODERATE"} ELSE RenoLevels

\* src records the photo list the collaborator was called with (it looks at
\* photos[:6])
analyze_listing_photos(provider, photos, level) ==
  IF photos = << >>
  THEN [src |-> << >>, overall_reno_level |-> "MODERATE", source |-> "no_photos"]
  ELSE [src |-> photos, overall_reno_level |-> level,
        source |-> IF provider = "mock" THEN "mock_default" ELSE "vision"]

assess_healthy_homes_from_text(description) ==
  IF description = "" THEN [present |-> FALSE, confidence |-> "LOW"]
  ELSE IF description = "healthy homes compliant"
       THEN [present |-> TRUE, confidence |-> "HIGH"]
  ELSE [present |-> FALSE, confidence |-> "LOW"]

\* image_analysis["healthy_homes_text"] = hh_text
WithHealthyHomes(img, hh) ==
  [src |-> img.src, overall_reno_level |-> img.overall_reno_level,
   source |-> img.source, healthy_homes_text |-> hh]

\* the fields of an image_analysis document that came from the collaborator
VisionPart(img) ==
  [src |-> img.src, overall_reno_level |-> img.overall_reno_level,
   source |-> img.source]

\* minimum lot sizes the zoning lookup may resolve (rules of a zone, or the
\* fallback table's default)
ZoneMinLots == {DEFAULT_MIN}

analyze_subdivision_potential(ld, min_required) ==
  LET asking_price == IF ld.asking_price = NULL THEN 0 ELSE ld.asking_price
      land_value == IF asking_price > 0 THEN (asking_price * 3) \div 10 ELSE 100000
      subdivision_uplift == (land_value * 6) \div 10
      src == <<ld.address, ld.district, ld.region, ld.land_area>>
  IN IF ld.land_area = NULL \/ ld.land_area = 0
     THEN [src |-> src, subdivision_potential |-> FALSE,
           reason |-> "Land area unknown",
           land_area |-> NULL, min_lot_size |-> NULL, net_value_add |-> 0]
     ELSE IF ~(ld.land_area >= min_required * 2)
     THEN [src |-> src, subdivision_potential |-> FALSE,
           reason |-> "Insufficient land",
           land_area |-> ld.land_area, min_lot_size |-> min_required,
           net_value_add |-> 0]
     ELSE [src |-> src, subdivision_potential |-> TRUE,
           reason |-> "Land allows additional lots",
           land_area |-> ld.land_area, min_lot_size |-> min_required,
           net_value_add |-> subdivision_uplift - subdivision_costs]

\* composite scores (x10) the scorer may return; the score depends on the
\* answers of the tenancy, council and insurance collaborators
Scores == {400, 750}

\* ------------------------------------------------------------ strategy
\* percentages are carried in hundredths of a percent (15% is 1500);
\* trend "" stands for a call without market_conditions
RiskTolerances == {"LOW", "MODERATE", "HIGH"}
Trends == {"", "HEATING", "STABLE", "COOLING"}

flip_roi_threshold(risk_tolerance, trend) ==
  (IF risk_tolerance = "LOW" THEN 1800
   ELSE IF risk_tolerance = "HIGH" THEN 1200 ELSE 1500)
  - (IF trend = "HEATING" THEN 100 ELSE 0)

rental_yield_threshold(risk_tolerance, trend) ==
  (IF risk_tolerance = "LOW" THEN 1000
   ELSE IF risk_tolerance = "HIGH" THEN 800 ELSE 900)
  - (IF trend = "COOLING" THEN 50 ELSE 0)

market_favors_flip(trend) == trend # "COOLING"

\* the decision logic, before the subdivision bonus; flip_roi >
\* rental_yield * 1.5 is 2 * flip_roi > 3 * rental_yield
BaseStrategy(flip_roi, rental_yield, flip_threshold, rental_threshold, favors_flip) ==
  IF flip_roi >= flip_threshold
  THEN IF rental_yield >= rental_threshold
       THEN IF 2 * flip_roi > 3 * rental_yield /\ favors_flip
            THEN "FLIP" ELSE "RENTAL"
       ELSE IF favors_flip THEN "FLIP" ELSE "PASS"
  ELSE IF rental_yield >= rental_threshold THEN "RENTAL"
  ELSE "PASS"

\* recommended += "_WITH_SUBDIVISION"
WithSubdivision(label) ==
  CASE label = "FLIP" -> "FLIP_WITH_SUBDIVISION"
    [] label = "RENTAL" -> "RENTAL_WITH_SUBDIVISION"
    [] label = "PASS" -> "PASS_WITH_SUBDIVISION"

\* a strategy engine whose thresholds ignore the market trend
decide_strategy_fixed_thresholds(flip_analysis, rental_analysis, subdivision_analysis, trend, risk_tolerance) ==
  LET base == BaseStrategy(flip_analysis.roi_percentage,
                           rental_analysis.gross_yield_percentage,
                           flip_roi_threshold(risk_tolerance, ""),
                           rental_yield_threshold(risk_tolerance, ""),
                           market_favors_flip(trend))
  IN [recommended_strategy |->
        IF subdivision_analysis.subdivision_potential
           /\ subdivision_analysis.net_value_add > 0
        THEN WithSubdivision(base) ELSE base,
      flip_roi |-> flip_analysis.roi_percentage,
      rental_yield |-> rental_analysis.gross_yield_percentage,
      subdivision_bonus |-> subdivision_analysis.net_value_add,
      risk_tolerance |-> risk_tolerance]

\* a strategy engine that gives the bonus for a net value-add of zero too
decide_strategy_bonus_at_zero(flip_analysis, rental_analysis, subdivision_analysis, trend, risk_tolerance) ==
  LET base == BaseStrategy(flip_analysis.roi_percentage,
                           rental_analysis.gross_yield_percentage,
                           flip_roi_threshold(risk_tolerance, trend),
                           rental_yield_threshold(risk_tolerance, trend),
                           market_favors_flip(trend))
  IN [recommended_strategy |->
        IF subdivision_analysis.subdivision_potential
           /\ subdivision_analysis.net_value_add >= 0
        THEN WithSubdivision(base) ELSE base,
      flip_roi |-> flip_analysis.roi_percentage,
      rental_yield |-> rental_analysis.gross_yield_percentage,
      subdivision_bonus |-> subdivision_analysis.net_value_add,
      risk_tolerance |-> risk_tolerance]

decide_strategy(flip_analysis, rental_analysis, subdivision_analysis, trend, risk_tolerance) ==
  LET base == BaseStrategy(flip_analysis.roi_percentage,
                           rental_analysis.gross_yield_percentage,
                           flip_roi_threshold(risk_tolerance, trend),
                           rental_yield_threshold(risk_tolerance, trend),
                           market_favors_flip(trend))
  IN [recommended_strategy |->
        IF subdivision_analysis.subdivision_potential
           /\ subdivision_analysis.net_value_add > 0
        THEN WithSubdivision(base) ELSE base,
      flip_roi |-> flip_analysis.roi_percentage,
      rental_yield |-> rental_analysis.gross_yield_percentage,
      subdivision_bonus |-> subdivision_analysis.net_value_add,
      risk_tolerance |-> risk_tolerance]

\* ------------------------------------------------------------ financial models
\* amounts are whole dollars, a fraction of a dollar being dropped where
\* the code keeps it; interest rates are in ten-thousandths (0.054 is 540),
\* percentages in hundredths of a percent.  A missing dict entry or None is
\* NULL
OrZero(v) == IF v = NULL THEN 0 ELSE v

\* weeks / 4.33 / 12 of a yearly amount
HeldShare(yearly, timeline_weeks) == (yearly * timeline_weeks * 100) \div 5196

\* part / whole * 100 in hundredths of a percent, computed in two steps of
\* two digits
Percentage(part, whole) ==
  LET a == (part * 100) \div whole
      rest == part * 100 - a * whole
  IN a * 100 + (rest * 100) \div whole

_empty_flip_result ==
  [strategy |-> "FLIP", purchase_price |-> 0, renovation_cost |-> 0,
   gst_refund |-> 0, net_reno_cost |-> 0, arv |-> 0, timeline_weeks |-> 0,
   interest_rate |-> 540, interest_cost |-> 0, insurance_cost |-> 0,
   rates_cost |-> 0, purchase_costs |-> 0, commission |-> 0, legal_sell |-> 0,
   marketing |-> 0, accounting |-> 0, total_expenses |-> 0, gross_profit |-> 0,
   tax |-> 0, net_profit |-> 0, cash_invested |-> 0, roi_percentage |-> 0,
   meets_15_roi |-> FALSE]

calculate_flip_financials(listing, analysis, interest_rate_override) ==
  LET purchase_price == OrZero(listing.price_display)
      reno_cost == analysis.renovation.total_estimated
      arv == OrZero(analysis.arv.estimated_arv)
      timeline_weeks == analysis.timeline.estimated_weeks
      annual_rates == analysis.council.annual_rates
      sale_price == IF arv > 0 THEN arv ELSE (purchase_price * 12) \div 10
      purchase_costs == 5000
      gst_refund == (reno_cost * 15) \div 100
      net_reno_cost == reno_cost - gst_refund
      interest_rate == IF interest_rate_override # NULL
                       THEN interest_rate_override ELSE 540
      interest_cost ==
        HeldShare((purchase_price * interest_rate) \div 10000, timeline_weeks)
      insurance == HeldShare(1000, timeline_weeks)
      rates_cost == HeldShare(annual_rates, timeline_weeks)
      commission == (sale_price * 345) \div 10000
      legal_sell == 2000
      marketing == 8500
      accounting == 2500
      total_expenses ==
        purchase_price + purchase_costs + net_reno_cost + interest_cost
        + insurance + rates_cost + commission + legal_sell + marketing
        + accounting
      gross_profit == sale_price - total_expenses
      tax == IF gross_profit > 0 THEN (gross_profit * 33) \div 100 ELSE 0
      net_profit == gross_profit - tax
      cash_invested == purchase_price + purchase_costs + reno_cost
  IN IF purchase_price <= 0 THEN _empty_flip_result
     ELSE [strategy |-> "FLIP", purchase_price |-> purchase_price,
           renovation_cost |-> reno_cost, gst_refund |-> gst_refund,
           net_reno_cost |-> net_reno_cost, arv |-> sale_price,
           timeline_weeks |-> timeline_weeks,
           interest_rate |-> interest_rate, interest_cost |-> interest_cost,
           insurance_cost |-> insurance, rates_cost |-> rates_cost,
           purchase_costs |-> purchase_costs, commission |-> commission,
           legal_sell |-> legal_sell, marketing |-> marketing,
           accounting |-> accounting, total_expenses |-> total_expenses,
           gross_profit |-> gross_profit, tax |-> tax,
           net_profit |-> net_profit, cash_invested |-> cash_invested,
           roi_percentage |-> Percentage(net_profit, cash_invested),
           meets_15_roi |-> net_profit * 100 >= 15 * cash_invested]

_empty_rental_result ==
  [strategy |-> "RENTAL", purchase_price |-> 0, renovation_cost |-> 0,
   purchase_costs |-> 0, total_invested |-> 0, target_valuation |-> 0,
   weekly_rent |-> 0, annual_rent |-> 0, vacancy_weeks |-> 2,
   accounting |-> 0, bank_fees |-> 0, insurance |-> 0, interest_rate |-> 480,
   annual_interest |-> 0, tax_deductible_interest |-> 0,
   property_management |-> 0, annual_rates |-> 0, repairs |-> 0,
   total_expenses |-> 0, net_cash_surplus |-> 0, chattels_depreciation |-> 0,
   taxable_income |-> 0, tax_refund |-> 0, tax_owed |-> 0,
   overall_annual_cashflow |-> 0, gross_yield_percentage |-> 0,
   net_yield_percentage |-> 0, meets_9_yield |-> FALSE]

RentalResult(purchase_price, reno_cost, weekly_rent, annual_insurance, annual_rates, target_valuation, interest_rate_override) ==
  LET purchase_costs == 5000
      total_invested == purchase_price + purchase_costs + reno_cost
      annual_rent == weekly_rent * 50
      accounting == 1100
      bank_fees == 0
      interest_rate == IF interest_rate_override # NULL
                       THEN interest_rate_override ELSE 480
      annual_interest == (total_invested * interest_rate) \div 10000
      tax_deductible_interest == (annual_interest * 80) \div 100
      prop_mgmt == annual_rent \div 10 + 345
      repairs == 500
      total_expenses ==
        accounting + bank_fees + annual_insurance + tax_deductible_interest
        + prop_mgmt + annual_rates + repairs
      net_cash_surplus == annual_rent - total_expenses
      chattels_depreciation == reno_cost \div 10
      taxable_income == net_cash_surplus - chattels_depreciation
      tax_refund == IF taxable_income < 0
                    THEN ((0 - taxable_income) * 175) \div 1000 ELSE 0
      tax_owed == IF taxable_income < 0 THEN 0
                  ELSE (taxable_income * 175) \div 1000
      overall_cash_surplus == net_cash_surplus + tax_refund - tax_owed
  IN [strategy |-> "RENTAL", purchase_price |-> purchase_price,
      renovation_cost |-> reno_cost, purchase_costs |-> purchase_costs,
      total_invested |-> total_invested,
      target_valuation |-> target_valuation, weekly_rent |-> weekly_rent,
      annual_rent |-> annual_rent, vacancy_weeks |-> 2,
      accounting |-> accounting, bank_fees |-> bank_fees,
      insurance |-> annual_insurance, interest_rate |-> interest_rate,
      annual_interest |-> annual_interest,
      tax_deductible_interest |-> tax_deductible_interest,
      property_management |-> prop_mgmt, annual_rates |-> annual_rates,
      repairs |-> repairs, total_expenses |-> total_expenses,
      net_cash_surplus |-> net_cash_surplus,
      chattels_depreciation |-> chattels_depreciation,
      taxable_income |-> taxable_income, tax_refund |-> tax_refund,
      tax_owed |-> tax_owed, overall_annual_cashflow |-> overall_cash_surplus,
      gross_yield_percentage |-> Percentage(annual_rent, total_invested),
      net_yield_percentage |-> Percentage(overall_cash_surplus, total_invested),
      meets_9_yield |-> annual_rent * 100 >= 9 * total_invested]

\* a rental model that returns the empty result for a missing price only
calculate_rental_financials_price_only(listing, analysis, interest_rate_override) ==
  IF OrZero(listing.price_display) <= 0
  THEN _empty_rental_result
  ELSE RentalResult(OrZero(listing.price_display),
                    analysis.renovation.total_estimated,
                    OrZero(analysis.rental.estimated_weekly_rent),
                    analysis.insurability.annual_insurance,
                    analysis.council.annual_rates,
                    OrZero(analysis.arv.estimated_arv),
                    interest_rate_override)

calculate_rental_financials(listing, analysis, interest_rate_override) ==
  IF OrZero(listing.price_display) <= 0
     \/ OrZero(analysis.rental.estimated_weekly_rent) <= 0
  THEN _empty_rental_result
  ELSE RentalResult(OrZero(listing.price_display),
                    analysis.renovation.total_estimated,
                    OrZero(analysis.rental.estimated_weekly_rent),
                    analysis.insurability.annual_insurance,
                    analysis.council.annual_rates,
                    OrZero(analysis.arv.estimated_arv),
                    interest_rate_override)

\* stage 3: both models on the effective price, then the strategy, without
\* market conditions and at the default risk tolerance
_run_stage3_financials(listing, analysis) ==
  LET effective_price == OrZero(get_effective_asking_price(listing))
      listing_dict == [price_display |-> effective_price]
      analysis_for_financial ==
        [renovation |-> analysis.renovation, arv |-> analysis.arv,
         rental |-> analysis.rental_income, council |-> analysis.council_rates,
         insurability |-> analysis.insurability, timeline |-> analysis.timeline]
      flip == calculate_flip_financials(listing_dict, analysis_for_financial, NULL)
      rental == calculate_rental_financials(listing_dict, analysis_for_financial, NULL)
  IN [flip |-> flip, rental |-> rental,
      strategy |-> decide_strategy(flip, rental, analysis.subdivision, "", "MODERATE")]

\* ------------------------------------------------------------ scoring
\* a score of one point is ScoreScale units, so that every component and
\* the composite are integers: ROI and yield come in hundredths of a
\* percent, growth in hundredths, premiums and value-add in dollars
ScoreScale == 300000
WEIGHTS ==
  [roi |-> 40, timeline |-> 15, confidence |-> 15, subdivision |-> 15,
   location_growth |-> 10, insurability |-> 5]
VERDICT_THRESHOLDS == [STRONG_BUY |-> 75, BUY |-> 55, MAYBE |-> 35, PASS |-> 0]
Max(a, b) == IF a >= b THEN a ELSE b

\* round(x, 1): the nearest tenth of a point, a tie going to the even tenth
Round1(x) ==
  LET tenth == ScoreScale \div 10
      q == x \div tenth
      r == x % tenth
  IN IF 2 * r > tenth \/ (2 * r = tenth /\ q % 2 = 1)
     THEN (q + 1) * tenth ELSE q * tenth

\* a verdict that has no override for a bare PASS recommendation
_assign_verdict_bands_only(composite, strategy) ==
  IF composite >= VERDICT_THRESHOLDS.STRONG_BUY * ScoreScale THEN "STRONG_BUY"
  ELSE IF composite >= VERDICT_THRESHOLDS.BUY * ScoreScale THEN "BUY"
  ELSE IF composite >= VERDICT_THRESHOLDS.MAYBE * ScoreScale THEN "MAYBE"
  ELSE "PASS"

_assign_verdict(composite, strategy) ==
  IF strategy.recommended_strategy = "PASS" /\ composite < 40 * ScoreScale
  THEN "PASS"
  ELSE IF composite >= VERDICT_THRESHOLDS.STRONG_BUY * ScoreScale THEN "STRONG_BUY"
  ELSE IF composite >= VERDICT_THRESHOLDS.BUY * ScoreScale THEN "BUY"
  ELSE IF composite >= VERDICT_THRESHOLDS.MAYBE * ScoreScale THEN "MAYBE"
  ELSE "PASS"

\* "FLIP" in recommended, "RENTAL" in recommended
ContainsFLIP(recommended) == recommended \in {"FLIP", "FLIP_WITH_SUBDIVISION"}
ContainsRENTAL(recommended) == recommended \in {"RENTAL", "RENTAL_WITH_SUBDIVISION"}

calculate_composite_score(analysis_data) ==
  LET recommended == analysis_data.strategy_decision.recommended_strategy
      \* (roi / 30) * 100 and (yield_pct / 15) * 100 points
      flip_part == Min(100 * ScoreScale,
                       analysis_data.flip.roi_percentage * (ScoreScale \div 30))
      rental_part == Min(100 * ScoreScale,
                         analysis_data.rental.gross_yield_percentage
                           * (ScoreScale \div 15))
      roi_score == IF ContainsFLIP(recommended) THEN flip_part
                   ELSE IF ContainsRENTAL(recommended) THEN rental_part
                   ELSE Max(flip_part, rental_part)
      weeks == analysis_data.timeline.estimated_weeks
      timeline_score ==
        ScoreScale * (IF weeks <= 8 THEN 100
                      ELSE IF weeks <= 16 THEN 100 - (weeks - 8) * 5
                      ELSE Max(0, 60 - (weeks - 16) * 3))
      confidence_score ==
        (ScoreScale \div 2)
          * (analysis_data.arv.confidence_score
             + Min(100, analysis_data.rental_estimate.bond_samples * 5))
      \* (sub_value / 100000) * 100 points
      subdivision_score ==
        IF analysis_data.subdivision.subdivision_potential
        THEN Min(100 * ScoreScale,
                 analysis_data.subdivision.net_value_add * (ScoreScale \div 1000))
        ELSE 0
      \* projected_growth in hundredths; (pop_growth + 0.05) * 500 points
      pop_growth == IF analysis_data.population.projected_growth = 0 THEN 2
                    ELSE analysis_data.population.projected_growth
      location_score ==
        ScoreScale * Min(100, Max(0, 5 * pop_growth + 25))
      \* 100 - annual_premium / 30 points
      insurability_score ==
        IF ~analysis_data.insurability.insurable THEN 0
        ELSE Max(0, 100 * ScoreScale
                    - analysis_data.insurability.annual_insurance
                        * (ScoreScale \div 30))
      \* the weights are percentages; every score is a multiple of 100 units
      composite ==
        (roi_score \div 100) * WEIGHTS.roi
        + (timeline_score \div 100) * WEIGHTS.timeline
        + (confidence_score \div 100) * WEIGHTS.confidence
        + (subdivision_score \div 100) * WEIGHTS.subdivision
        + (location_score \div 100) * WEIGHTS.location_growth
        + (insurability_score \div 100) * WEIGHTS.insurability
  IN [composite_score |-> Round1(composite),
      component_scores |->
        [roi_score |-> Round1(roi_score),
         timeline_score |-> Round1(timeline_score),
         confidence_score |-> Round1(confidence_score),
         subdivision_score |-> Round1(subdivision_score),
         location_score |-> Round1(location_score),
         insurability_score |-> Round1(insurability_score)],
      verdict |-> _assign_verdict(composite, analysis_data.strategy_decision)]

\* ------------------------------------------------------------ the stores
NoImage ==
  [src |-> << >>, overall_reno_level |-> "", source |-> "",
   healthy_homes_text |-> [present |-> FALSE, confidence |-> ""]]

NoSubdivision ==
  [src |-> << >>, subdivision_potential |-> FALSE, reason |-> "", land_area |-> NULL,
   min_lot_size |-> NULL, net_value_add |-> 0]

\* a listing id that has no Analysis row.  A row holds the columns the
\* Analysis model maps; vision_photos_hash and subdivision_input_hash are
\* not among them
NoAnalysis ==
  [exists |-> FALSE, composite_score |-> NULL, rank |-> NULL,
   image_analysis |-> NoImage, subdivision_analysis |-> NoSubdivision]

\* a listing id that has no Listing row yet
NoListing ==
  [exists |-> FALSE, asking_price |-> NULL, capital_value |-> 0,
   estimated_market_price |-> << >>, title_type |-> "", district |-> "",
   region |-> "", address |-> "", land_area |-> NULL, photos |-> << >>,
   description |-> "", filter_status |-> "pending",
   filter_rejection_reason |-> "", analysis_status |-> "pending"]

\* the details the scraper may fetch for a listing
BaseDetails ==
  [asking_price |-> 450000, capital_value |-> 0, estimated_market_price |-> << >>,
   title_type |-> "freehold", district |-> "auckland", region |-> "auckland",
   address |-> "1 Main St", land_area |-> 1300,
   photos |-> <<1, 2, 3, 4, 5, 6, 7>>,
   description |-> "healthy homes compliant"]

ScrapeDetails ==
  { BaseDetails,
    [BaseDetails EXCEPT !.photos = <<7, 2, 3, 4, 5, 6, 1>>,
                        !.address = "2 Side Rd", !.description = "plain"],
    [BaseDetails EXCEPT !.asking_price = 600000, !.title_type = "leasehold"],
    [BaseDetails EXCEPT !.title_type = "leasehold", !.district = "gore"],
    [BaseDetails EXCEPT !.asking_price = NULL, !.capital_value = 450000,
                        !.district = "gore", !.region = "southland",
                        !.land_area = NULL] }

\* calc is the last call of one of the pure functions: its name, its
\* arguments and what it returned.  sync is the lock of the pipeline status
\* and the calls of its four functions that are under way
VARIABLES listings, analyses, task, status, scrapes, calc, sync

vars == <<listings, analyses, task, status, scrapes, calc, sync>>

NoCall == [fn |-> "none"]

NoLocals ==
  [image_analysis |-> NoImage, vision_photos_hash |-> << >>,
   subdivision |-> NoSubdivision, subdivision_input_hash |-> << >>]

IdleTask ==
  [kind |-> "none", pc |-> "idle", pending |-> << >>, idx |-> 0, cur |-> 0,
   raised |-> FALSE, escaped |-> FALSE, attempted |-> << >>,
   filters_run |-> << >>, stages |-> << >>, vision_invoked |-> FALSE,
   subdiv_invoked |-> FALSE, res |-> NoLocals, score |-> NULL, slept |-> FALSE]

IdleStatus ==
  [running |-> FALSE, task |-> "", message |-> "", progress |-> << >>,
   started_at |-> "", finished_at |-> ""]

\* the threads that call the status functions: two background workers and
\* the request handler of GET /api/pipeline/status
StatusWriters == {"bg1", "bg2"}
StatusReaders == {"api"}
StatusThreads == StatusWriters \cup StatusReaders
NoStatusCall == [fn |-> "none", k |-> 0, new |-> IdleStatus]

\* _lock is the thread holding the lock ("" when free); call is what each
\* thread is doing: the function, the next field to assign or read, and
\* the values being assigned or the snapshot being built; wholes are the
\* values of the status at the end of every completed write; ret is what
\* get_status returned last
NoSync ==
  [_lock |-> "", call |-> [t \in StatusThreads |-> NoStatusCall],
   wholes |-> {IdleStatus}, ret |-> IdleStatus]

Init ==
  /\ listings = [l \in ListingIds |-> NoListing]
  /\ analyses = [l \in ListingIds |-> NoAnalysis]
  /\ task = [w \in Workers |-> IdleTask]
  /\ status = IdleStatus
  /\ scrapes = 0
  /\ calc = NoCall
  /\ sync = NoSync

\* ------------------------------------------------------- pipeline status
set_running(t, message, progress) ==
  [running |-> TRUE, task |-> t, message |-> message, progress |-> progress,
   started_at |-> "now", finished_at |-> ""]

update_progress(st, message, current, total) ==
  [st EXCEPT !.message = message, !.progress = <<current, total>>]

\* a set_idle that leaves the name of the task in the status
set_idle_keeps_task(st) ==
  [st EXCEPT !.running = FALSE, !.message = "", !.progress = << >>,
             !.finished_at = "now"]

set_idle(st) ==
  [st EXCEPT !.running = FALSE, !.task = "", !.message = "",
             !.progress = << >>, !.finished_at = "now"]

\* ------------------------------------------------------------ the scraper
\* a scraper that puts an updated listing back in the queue
_store_listing_requeue(l, d) ==
  [exists |-> TRUE,
   asking_price |-> d.asking_price, capital_value |-> d.capital_value,
   estimated_market_price |-> d.estimated_market_price,
   title_type |-> d.title_type, district |-> d.district,
   region |-> d.region, address |-> d.address, land_area |-> d.land_area,
   photos |-> d.photos, description |-> d.description,
   filter_status |-> "pending", filter_rejection_reason |-> "",
   analysis_status |-> "pending"]

\* setattr(existing, key, value) only for truthy values; a new row takes
\* the details as they are, with both statuses pending
_store_listing(l, d) ==
  IF l.exists
  THEN [l EXCEPT
          !.asking_price = IF d.asking_price # NULL /\ d.asking_price # 0
                           THEN d.asking_price ELSE @,
          !.capital_value = IF d.capital_value # 0 THEN d.capital_value ELSE @,
          !.estimated_market_price = IF d.estimated_market_price # << >>
                                     THEN d.estimated_market_price ELSE @,
          !.title_type = IF d.title_type # "" THEN d.title_type ELSE @,
          !.district = IF d.district # "" THEN d.district ELSE @,
          !.region = IF d.region # "" THEN d.region ELSE @,
          !.address = IF d.address # "" THEN d.address ELSE @,
          !.land_area = IF d.land_area # NULL /\ d.land_area # 0
                        THEN d.land_area ELSE @,
          !.photos = IF d.photos # << >> THEN d.photos ELSE @,
          !.description = IF d.description # "" THEN d.description ELSE @]
  ELSE [exists |-> TRUE, asking_price |-> d.asking_price,
        capital_value |-> d.capital_value,
        estimated_market_price |-> d.estimated_market_price,
        title_type |-> d.title_type, district |-> d.district,
        region |-> d.region, address |-> d.address, land_area |-> d.land_area,
        photos |-> d.photos, description |-> d.description,
        filter_status |-> "pending", filter_rejection_reason |-> "",
        analysis_status |-> "pending"]

\* ids are handed out in insertion order
NextListingId(ls) == Cardinality({l \in ListingIds : ls[l].exists}) + 1

\* ------------------------------------------------------------ re-ranking
SortedSeqOf(S) ==
  CHOOSE s \in [1..Cardinality(S) -> S] :
    \A i, j \in 1..Cardinality(S) : i < j => s[i] < s[j]

\* the rows of query(Analysis).filter(composite_score IS NOT NULL)
ScoredAnalyses(as) ==
  {l \in ListingIds : as[l].exists /\ as[l].composite_score # NULL}

\* the orders ORDER BY composite_score DESC may return (ties in any order)
ScoreDescOrders(as) ==
  LET S == ScoredAnalyses(as)
      n == Cardinality(S)
  IN {s \in [1..n -> S] :
        /\ \A i, j \in 1..n : i # j => s[i] # s[j]
        /\ \A i, j \in 1..n :
             i < j => as[s[i]].composite_score >= as[s[j]].composite_score}

\* enumerate(analyses) without the start value: ranks from 0
_rerank_all_from0(as, order) ==
  [l \in ListingIds |->
     IF \E i \in 1..Len(order) : order[i] = l
     THEN [as[l] EXCEPT !.rank = (CHOOSE i \in 1..Len(order) : order[i] = l) - 1]
     ELSE as[l]]

\* for i, analysis in enumerate(analyses, 1): analysis.rank = i
_rerank_all(as, order) ==
  [l \in ListingIds |->
     IF \E i \in 1..Len(order) : order[i] = l
     THEN [as[l] EXCEPT !.rank = CHOOSE i \in 1..Len(order) : order[i] = l]
     ELSE as[l]]

\* ------------------------------------------------------------ the tasks
\* a query that selects every listing, whatever its status
PendingQuery_all(ls) == SortedSeqOf({l \in ListingIds : ls[l].exists})

\* query(Listing).filter(analysis_status IN (pending, failed))
PendingQuery(ls) ==
  SortedSeqOf({l \in ListingIds :
                 ls[l].exists /\ ls[l].analysis_status \in {"pending", "failed"}})

NewTask(kind, pc) == [IdleTask EXCEPT !.kind = kind, !.pc = pc]

\* where a task goes when scrape_new_listings returns
AfterScrape(kind) == IF kind = "full" THEN "select" ELSE "scrape_done"

\* scrape_new_listings up to the first listing: with no search URL it
\* returns at once, with one it calls set_running and update_progress
ScrapeBegin(w, kind, st) ==
  \/ /\ task' = [task EXCEPT ![w] = NewTask(kind, AfterScrape(kind))]
     /\ status' = st
  \/ /\ task' = [task EXCEPT ![w] = NewTask(kind, "scraping")]
     /\ status' = update_progress(
                    set_running("scrape", "Scraping 1 search URL(s)...", <<0, 1>>),
                    "Scraping URL 1 of 1", 1, 1)

\* POST /run, and the scheduler's daily job: run_full_pipeline up to the
\* first listing of scrape_new_listings
StartFullPipeline(w) ==
  /\ task[w].pc = "idle"
  /\ ScrapeBegin(w, "full", set_running("full", "Starting full pipeline...", << >>))
  /\ UNCHANGED <<listings, analyses, scrapes>>

\* POST /scrape
StartScrapeTask(w) ==
  /\ task[w].pc = "idle"
  /\ ScrapeBegin(w, "scrape", status)
  /\ UNCHANGED <<listings, analyses, scrapes>>

\* scrape_search_url: one _store_listing call
ScrapeStoreListing(w, l, d) ==
  /\ task[w].pc = "scraping"
  /\ scrapes < MaxScrapes
  /\ listings[l].exists \/ l = NextListingId(listings)
  /\ listings' = [listings EXCEPT ![l] = _store_listing(listings[l], d)]
  /\ scrapes' = scrapes + 1
  /\ UNCHANGED <<analyses, task, status>>

\* scrape_search_url commits and scrape_new_listings returns
ScrapeUrlDone(w) ==
  /\ task[w].pc = "scraping"
  /\ task' = [task EXCEPT ![w].pc = AfterScrape(task[w].kind)]
  /\ UNCHANGED <<listings, analyses, status, scrapes>>

\* _run_scrape_task: finally db.close(); set_idle()
ScrapeTaskFinish(w) ==
  /\ task[w].kind = "scrape"
  /\ task[w].pc = "scrape_done"
  /\ task' = [task EXCEPT ![w].pc = "idle"]
  /\ status' = set_idle(status)
  /\ UNCHANGED <<listings, analyses, scrapes>>

\* POST /analyze
StartAnalyzeTask(w) ==
  /\ task[w].pc = "idle"
  /\ task' = [task EXCEPT ![w] = NewTask("analyze", "select")]
  /\ UNCHANGED <<listings, analyses, status, scrapes>>

\* analyze_pending_listings: the query, and set_running when it is not empty
SelectPending(w) ==
  /\ task[w].pc = "select"
  /\ LET pending == PendingQuery(listings)
     IN /\ task' = [task EXCEPT ![w].pending = pending, ![w].idx = 1,
                                ![w].pc = "loop"]
        /\ status' = IF pending # << >>
                     THEN set_running("analyze", "Analyzing listing(s)...",
                                      <<0, Len(pending)>>)
                     ELSE status
  /\ UNCHANGED <<listings, analyses, scrapes>>

\* the loop head: update_progress, the call of analyze_listing and its
\* first commit (analysis_status = "in_progress")
BatchNext(w) ==
  /\ task[w].pc = "loop"
  /\ task[w].idx <= Len(task[w].pending)
  /\ task' = [task EXCEPT ![w] =
                [NewTask(task[w].kind, "s1") EXCEPT
                   !.pending = task[w].pending, !.idx = task[w].idx,
                   !.attempted = task[w].attempted,
                   !.cur = task[w].pending[task[w].idx]]]
  /\ status' = update_progress(status, "Analyzing: listing", task[w].idx,
                               Len(task[w].pending))
  /\ listings' = [listings EXCEPT
                    ![task[w].pending[task[w].idx]].analysis_status = "in_progress"]
  /\ UNCHANGED <<analyses, scrapes>>

\* POST /analyze/{listing_id} for a listing that exists:
\* _run_single_analysis_task up to the first commit of analyze_listing
\* (analysis_status = "in_progress")
StartSingleAnalysis(w, l) ==
  /\ task[w].pc = "idle"
  /\ listings[l].exists
  /\ task' = [task EXCEPT ![w] = [NewTask("single", "s1") EXCEPT !.cur = l]]
  /\ status' = set_running("analyze", "Analyzing: listing", <<1, 1>>)
  /\ listings' = [listings EXCEPT ![l].analysis_status = "in_progress"]
  /\ UNCHANGED <<analyses, scrapes>>

\* ------------------------------------------------------------ analyze_listing
\* a failing run that saves the image analysis it has paid for
Raise_saves_image(w) ==
  /\ task' = [task EXCEPT ![w].pc = "raised", ![w].raised = TRUE]
  /\ analyses' = [analyses EXCEPT ![task[w].cur] =
                    IF task[w].vision_invoked
                    THEN [@ EXCEPT !.exists = TRUE,
                                   !.image_analysis = task[w].res.image_analysis]
                    ELSE @]
  /\ UNCHANGED <<listings, status, scrapes>>

\* a stage raises: the exception leaves analyze_listing
Raise(w) ==
  /\ task' = [task EXCEPT ![w].pc = "raised", ![w].raised = TRUE]
  /\ UNCHANGED <<listings, analyses, status, scrapes>>

\* a chain that asks the title filter before the price filter
_run_stage1_filters_title_first(l) ==
  IF filter_title(l)[1] = REJECT
  THEN [passed |-> FALSE, reason |-> filter_title(l)[2], run |-> <<"title">>]
  ELSE IF filter_price(l)[1] = REJECT
  THEN [passed |-> FALSE, reason |-> filter_price(l)[2],
        run |-> <<"title", "price">>]
  ELSE IF filter_population(l)[1] = REJECT
  THEN [passed |-> FALSE, reason |-> filter_population(l)[2],
        run |-> <<"title", "price", "population">>]
  ELSE [passed |-> TRUE, reason |-> "", run |-> <<"title", "price", "population">>]

\* the chain of early returns; run lists the filters that were evaluated
_run_stage1_filters(l) ==
  IF filter_price(l)[1] = REJECT
  THEN [passed |-> FALSE, reason |-> filter_price(l)[2], run |-> <<"price">>]
  ELSE IF filter_title(l)[1] = REJECT
  THEN [passed |-> FALSE, reason |-> filter_title(l)[2],
        run |-> <<"price", "title">>]
  ELSE IF filter_population(l)[1] = REJECT
  THEN [passed |-> FALSE, reason |-> filter_population(l)[2],
        run |-> <<"price", "title", "population">>]
  ELSE [passed |-> TRUE, reason |-> "", run |-> <<"price", "title", "population">>]

\* stage 1 and the two branches that follow it
AnalyzeStage1(w) ==
  /\ task[w].pc = "s1"
  /\ \/ Raise(w)
     \/ LET l == task[w].cur
            r == _run_stage1_filters(listings[l])
        IN /\ IF ~r.passed
              THEN /\ listings' = [listings EXCEPT
                                     ![l].filter_status = "rejected",
                                     ![l].filter_rejection_reason = r.reason,
                                     ![l].analysis_status = "completed"]
                   /\ task' = [task EXCEPT ![w].pc = "returned",
                                           ![w].filters_run = r.run,
                                           ![w].stages = Append(@, "filters")]
              ELSE /\ listings' = [listings EXCEPT ![l].filter_status = "passed"]
                   /\ task' = [task EXCEPT ![w].pc = "s2",
                                           ![w].filters_run = r.run,
                                           ![w].stages = Append(@, "filters")]
           /\ UNCHANGED <<analyses, status, scrapes>>

\* getattr(obj, name, None) of an instance the session has just loaded:
\* << >> is None, <<v>> is the value v
getattr_or_none(obj, name) ==
  IF name \in DOMAIN obj THEN <<obj[name]>> ELSE << >>

\* existing_analysis.image_analysis is usable and its hash is the fresh one
VisionCacheHit(existing, photos_hash) ==
  /\ existing.exists
  /\ existing.image_analysis # NoImage
  /\ getattr_or_none(existing, "vision_photos_hash") = <<photos_hash>>

SubdivisionCacheHit(existing, subdiv_hash) ==
  /\ existing.exists
  /\ existing.subdivision_analysis # NoSubdivision
  /\ getattr_or_none(existing, "subdivision_input_hash") = <<subdiv_hash>>

\* _run_stage2_analysis; level and min_required are the collaborators' answers
_run_stage2_analysis(l, existing, provider, level, min_required) ==
  LET listing_data == _listing_to_dict(l)
      photos_hash == _compute_photos_hash(l.photos)
      image_analysis == IF VisionCacheHit(existing, photos_hash)
                        THEN existing.image_analysis
                        ELSE analyze_listing_photos(provider, l.photos, level)
      hh_text == assess_healthy_homes_from_text(l.description)
      subdiv_hash == _compute_subdivision_input_hash(listing_data)
      subdivision == IF SubdivisionCacheHit(existing, subdiv_hash)
                     THEN existing.subdivision_analysis
                     ELSE analyze_subdivision_potential(listing_data, min_required)
  IN [image_analysis |-> WithHealthyHomes(image_analysis, hh_text),
      vision_photos_hash |-> photos_hash,
      subdivision |-> subdivision,
      subdivision_input_hash |-> subdiv_hash]

AnalyzeStage2(w) ==
  /\ task[w].pc = "s2"
  /\ \/ Raise(w)
     \/ LET l == listings[task[w].cur]
            existing == analyses[task[w].cur]
        IN \E level \in VisionAnswers(vision_provider, l.photos),
              min_required \in ZoneMinLots :
             /\ task' = [task EXCEPT
                  ![w].pc = "s3",
                  ![w].stages = Append(@, "enrichment"),
                  ![w].vision_invoked =
                     ~VisionCacheHit(existing, _compute_photos_hash(l.photos)),
                  ![w].subdiv_invoked =
                     ~SubdivisionCacheHit(existing,
                        _compute_subdivision_input_hash(_listing_to_dict(l))),
                  ![w].res = _run_stage2_analysis(l, existing, vision_provider,
                                                  level, min_required)]
             /\ UNCHANGED <<listings, analyses, status, scrapes>>

\* the row _store_analysis commits: the existing row is updated in place
\* (its rank is not assigned), a new row has no rank.  The assignments to
\* db_analysis.vision_photos_hash and db_analysis.subdivision_input_hash set
\* attributes that are no mapped column: the commit writes the mapped
\* columns only, and the instance is gone with the task's session
_store_analysis(existing, res, score) ==
  [exists |-> TRUE, composite_score |-> score,
   rank |-> IF existing.exists THEN existing.rank ELSE NULL,
   image_analysis |-> res.image_analysis,
   subdivision_analysis |-> res.subdivision]

\* stage 3, calculate_composite_score, _store_analysis, then
\* analysis_status = "completed"; commit.  An exception of any of them
\* leaves the store as it was
AnalyzeScoreStore(w) ==
  /\ task[w].pc = "s3"
  /\ \/ Raise(w)
     \/ \E score \in Scores :
          LET l == task[w].cur
          IN /\ analyses' = [analyses EXCEPT ![l] =
                               _store_analysis(analyses[l], task[w].res, score)]
             /\ listings' = [listings EXCEPT ![l].analysis_status = "completed"]
             /\ task' = [task EXCEPT
                           ![w].pc = "returned", ![w].score = score,
                           ![w].stages = @ \o <<"financials", "scoring", "store">>]
             /\ UNCHANGED <<status, scrapes>>

\* ------------------------------------------------------------ task ends
IsBatch(t) == t.kind \in {"full", "analyze"}

\* an except clause that does not record the failure
HandlerStatus_keep(raised, current) == current

\* the status the except clause of the batch loop leaves
HandlerStatus(raised, current) == IF raised THEN "failed" ELSE current

\* settings.vision_rate_limit_delay_seconds
vision_rate_limit_delay_seconds == 65

\* a rate limit that also leaves out the sleep before the last listing
RateLimitSleeps_early_stop(provider, filter_status, idx, n) ==
  /\ provider = "openai"
  /\ filter_status = "passed"
  /\ idx < n - 1
  /\ vision_rate_limit_delay_seconds > 0

\* whether the loop sleeps after the listing at position idx (from 1) of n
RateLimitSleeps(provider, filter_status, idx, n) ==
  /\ provider = "openai"
  /\ filter_status = "passed"
  /\ idx < n
  /\ vision_rate_limit_delay_seconds > 0

\* the rest of one loop iteration: the except clause and the rate limit
BatchAfterListing(w) ==
  /\ IsBatch(task[w])
  /\ task[w].pc \in {"returned", "raised"}
  /\ LET l == task[w].cur
     IN /\ listings' = [listings EXCEPT ![l].analysis_status =
                          HandlerStatus(task[w].pc = "raised", @)]
        /\ task' = [task EXCEPT
             ![w].pc = "loop",
             ![w].idx = @ + 1,
             ![w].attempted = Append(@, l),
             ![w].slept = RateLimitSleeps(vision_provider,
                                          listings[l].filter_status,
                                          task[w].idx, Len(task[w].pending))]
  /\ UNCHANGED <<analyses, status, scrapes>>

\* the loop is over and analyze_pending_listings returns
BatchReturned(t) == IsBatch(t) /\ t.pc = "loop" /\ t.idx > Len(t.pending)

\* what a finished task leaves behind: its kind, its last listing and how
\* the last analyze_listing call ended
Finished(t, escaped) ==
  [NewTask(t.kind, "idle") EXCEPT !.cur = t.cur, !.raised = t.raised,
                                  !.escaped = escaped]

\* _run_analysis_task: finally db.close(); set_idle()
AnalyzeTaskFinish(w) ==
  /\ task[w].kind = "analyze"
  /\ BatchReturned(task[w])
  /\ task' = [task EXCEPT ![w] = Finished(task[w], FALSE)]
  /\ status' = set_idle(status)
  /\ UNCHANGED <<listings, analyses, scrapes>>

\* run_full_pipeline: set_running("full", "Re-ranking...") and _rerank_all
FullRerank(w) ==
  /\ task[w].kind = "full"
  /\ BatchReturned(task[w])
  /\ \E order \in ScoreDescOrders(analyses) :
       analyses' = _rerank_all(analyses, order)
  /\ task' = [task EXCEPT ![w].pc = "reranked"]
  /\ status' = set_running("full", "Re-ranking listings...", << >>)
  /\ UNCHANGED <<listings, scrapes>>

\* run_full_pipeline: finally set_idle()
FullFinish(w) ==
  /\ task[w].kind = "full"
  /\ task[w].pc = "reranked"
  /\ task' = [task EXCEPT ![w] = Finished(task[w], FALSE)]
  /\ status' = set_idle(status)
  /\ UNCHANGED <<listings, analyses, scrapes>>

\* _run_single_analysis_task has no except clause: finally db.close();
\* set_idle(), and an exception of analyze_listing leaves the task
SingleFinish(w) ==
  /\ task[w].kind = "single"
  /\ task[w].pc \in {"returned", "raised"}
  /\ task' = [task EXCEPT ![w] = Finished(task[w], task[w].pc = "raised")]
  /\ status' = set_idle(status)
  /\ UNCHANGED <<listings, analyses, scrapes>>

\* ------------------------------------------------------------ specification
\* one pipeline task at a time, run by one background worker
Next ==
  /\ UNCHANGED <<calc, sync>>
  /\ \E w \in SeqWorkers :
       \/ StartFullPipeline(w)
       \/ StartScrapeTask(w)
       \/ \E l \in ListingIds, d \in ScrapeDetails : ScrapeStoreListing(w, l, d)
       \/ ScrapeUrlDone(w)
       \/ ScrapeTaskFinish(w)
       \/ StartAnalyzeTask(w)
       \/ SelectPending(w)
       \/ BatchNext(w)
       \/ \E l \in ListingIds : StartSingleAnalysis(w, l)
       \/ AnalyzeStage1(w)
       \/ AnalyzeStage2(w)
       \/ AnalyzeScoreStore(w)
       \/ BatchAfterListing(w)
       \/ AnalyzeTaskFinish(w)
       \/ FullRerank(w)
       \/ FullFinish(w)
       \/ SingleFinish(w)

Spec == Init /\ [][Next]_vars

\* ------------------------------------------------------------ pure functions
\* the functions of the filters, the financial models, the strategy engine
\* and the scorer, each applied to arguments drawn from a bounded set
PipelineVars == <<listings, analyses, task, status, scrapes>>

\* prices around the ceiling, in each of the three places a price can come
\* from; 900 is a capital value the parser drops, 5 a market figure it drops
AskingPrices == {NULL, 0, 499999, 500000, 500001}
CapitalValues == {0, 900, 500000, 500001}
MarketEstimates ==
  { << >>,
    <<[num |-> 5, k |-> FALSE]>>,
    <<[num |-> 490, k |-> TRUE], [num |-> 510, k |-> TRUE]>>,
    <<[num |-> 530, k |-> TRUE], [num |-> 565, k |-> TRUE]>> }

PriceInputs ==
  {[BaseDetails EXCEPT !.asking_price = a, !.capital_value = c,
                       !.estimated_market_price = e] :
     a \in AskingPrices, c \in CapitalValues, e \in MarketEstimates}

CallFilterPrice ==
  /\ \E l \in PriceInputs :
       calc' = [fn |-> "filter_price", arg |-> l, out |-> filter_price(l)]
  /\ UNCHANGED PipelineVars

\* districts and regions in and out of the population tables
Districts == {"", "auckland", "gore", "ponsonby"}
Regions == {"", "auckland", "southland"}

PopulationInputs ==
  {[BaseDetails EXCEPT !.district = d, !.region = r] :
     d \in Districts, r \in Regions}

CallFilterPopulation ==
  /\ \E l \in PopulationInputs :
       calc' = [fn |-> "filter_population", arg |-> l,
                out |-> filter_population(l)]
  /\ UNCHANGED PipelineVars

\* flip ROI and rental yield on, just under and over every threshold a
\* risk tolerance and a trend can give, and a negative ROI
FlipRois == {-500, 0, 1100, 1150, 1200, 1400, 1450, 1500, 1700, 1800, 2000}
RentalYields == {0, 500, 750, 800, 850, 900, 950, 1000, 1400}

\* subdivision results: none, viable at a loss, viable at zero, viable at
\* a gain, and not viable with a value-add left in the dict
SubdivisionResults ==
  {NoSubdivision} \cup
  {[NoSubdivision EXCEPT !.subdivision_potential = p, !.net_value_add = n] :
     p \in BOOLEAN, n \in {-8000, 0, 1000}}

CallDecideStrategy ==
  /\ \E f \in FlipRois, y \in RentalYields, sub \in SubdivisionResults,
        trend \in Trends, risk \in RiskTolerances :
       calc' = [fn |-> "decide_strategy",
                arg |-> [flip_roi |-> f, rental_yield |-> y, subdivision |-> sub,
                         trend |-> trend, risk_tolerance |-> risk],
                out |-> decide_strategy([roi_percentage |-> f],
                                        [gross_yield_percentage |-> y],
                                        sub, trend, risk)]
  /\ UNCHANGED PipelineVars

\* what stage 2 and stage 3 hand to the scorer.  The subdivision result is
\* the one analyze_subdivision_potential gives for a listing; the strategy
\* is decided as stage 3 decides it, without market conditions and at the
\* default risk tolerance
ScoredListings ==
  {[BaseDetails EXCEPT !.asking_price = a, !.land_area = la] :
     a \in {NULL, 400000, 450000}, la \in {NULL, 1000, 1300}}
ScoredFlipRois == {-500, 1400, 2000, 3500}
ScoredRentalYields == {0, 900, 1600}
EstimatedWeeks == {6, 12, 24, 40}
ArvConfidences == {10, 85}
BondSamples == {0, 30}
ProjectedGrowths == {0, 2, 8, 20}
Insurabilities ==
  {[insurable |-> i, annual_insurance |-> p] :
     i \in BOOLEAN, p \in {1500, 5000}}

AnalysisData(ld, f, y, weeks, conf, samples, growth, ins) ==
  LET subdivision == analyze_subdivision_potential(ld, DEFAULT_MIN)
      flip == [roi_percentage |-> f]
      rental == [gross_yield_percentage |-> y]
  IN [strategy_decision |-> decide_strategy(flip, rental, subdivision, "", "MODERATE"),
      flip |-> flip, rental |-> rental,
      timeline |-> [estimated_weeks |-> weeks],
      arv |-> [confidence_score |-> conf],
      rental_estimate |-> [bond_samples |-> samples],
      subdivision |-> subdivision,
      population |-> [projected_growth |-> growth],
      insurability |-> ins]

CallCalculateCompositeScore ==
  /\ \E ld \in ScoredListings, f \in ScoredFlipRois, y \in ScoredRentalYields,
        weeks \in EstimatedWeeks, conf \in ArvConfidences,
        samples \in BondSamples, growth \in ProjectedGrowths,
        ins \in Insurabilities :
       LET d == AnalysisData(ld, f, y, weeks, conf, samples, growth, ins)
       IN calc' = [fn |-> "calculate_composite_score", arg |-> d,
                   out |-> calculate_composite_score(d)]
  /\ UNCHANGED PipelineVars

\* composites on and just under every band edge and the override's 40
\* (74.99 is a hundredth of a point under 75), and every strategy label
Composites ==
  {0, 100 * ScoreScale} \cup
  {e * ScoreScale - d : e \in {35, 40, 55, 75}, d \in {0, 1, ScoreScale \div 100}}
Recommendations ==
  {"FLIP", "RENTAL", "PASS", "FLIP_WITH_SUBDIVISION", "RENTAL_WITH_SUBDIVISION",
   "PASS_WITH_SUBDIVISION"}

CallAssignVerdict ==
  /\ \E c \in Composites, rec \in Recommendations :
       calc' = [fn |-> "_assign_verdict",
                arg |-> [composite |-> c, recommended_strategy |-> rec],
                out |-> _assign_verdict(c, [recommended_strategy |-> rec])]
  /\ UNCHANGED PipelineVars

\* purchase prices missing, zero and positive; what stage 2 estimated
PriceDisplays == {NULL, 0, 300000, 400000}
RateOverrides == {NULL, 0, 700}
WeeklyRents == {NULL, 0, 450, 800}
FinancialAnalyses ==
  {[renovation |-> [total_estimated |-> reno],
    arv |-> [estimated_arv |-> arv],
    rental |-> [estimated_weekly_rent |-> rent],
    council |-> [annual_rates |-> 3000],
    insurability |-> [annual_insurance |-> 2000],
    timeline |-> [estimated_weeks |-> weeks]] :
     reno \in {30000, 60000}, arv \in {NULL, 420000, 600000},
     rent \in WeeklyRents, weeks \in {6, 12}}

CallCalculateFlipFinancials ==
  /\ \E price \in PriceDisplays, a \in FinancialAnalyses, o \in RateOverrides :
       calc' = [fn |-> "calculate_flip_financials",
                arg |-> [price_display |-> price, analysis |-> a,
                         interest_rate_override |-> o],
                out |-> calculate_flip_financials([price_display |-> price], a, o)]
  /\ UNCHANGED PipelineVars

CallCalculateRentalFinancials ==
  /\ \E price \in PriceDisplays, a \in FinancialAnalyses, o \in RateOverrides :
       calc' = [fn |-> "calculate_rental_financials",
                arg |-> [price_display |-> price, analysis |-> a,
                         interest_rate_override |-> o],
                out |-> calculate_rental_financials([price_display |-> price], a, o)]
  /\ UNCHANGED PipelineVars

\* listings whose price is in none, one or several of the three places,
\* with the stage-2 results of a listing that has no asking price
Stage3Listings ==
  {l \in PriceInputs : l.asking_price \in {NULL, 0, 499999}}
  \cup {[BaseDetails EXCEPT !.asking_price = 300000]}
Stage3Analyses ==
  {[renovation |-> a.renovation, arv |-> a.arv, rental_income |-> a.rental,
    council_rates |-> a.council, insurability |-> a.insurability,
    timeline |-> a.timeline, subdivision |-> sub] :
     a \in {x \in FinancialAnalyses : x.renovation.total_estimated = 60000},
     sub \in {analyze_subdivision_potential(ld, DEFAULT_MIN) :
                ld \in ScoredListings}}

CallRunStage3Financials ==
  /\ \E l \in Stage3Listings, a \in Stage3Analyses :
       calc' = [fn |-> "_run_stage3_financials",
                arg |-> [listing |-> l, analysis |-> a],
                out |-> _run_stage3_financials(l, a)]
  /\ UNCHANGED PipelineVars

\* land areas unknown, zero, under, on and over twice the minimum lot
\* size of two zones, with and without an asking price
SubdivisionLandAreas == {NULL, 0, 799, 800, 801, 1199, 1200, 1201}
SubdivisionMinLots == {400, 600}
SubdivisionInputs ==
  {[_listing_to_dict(BaseDetails) EXCEPT !.land_area = la, !.asking_price = a] :
     la \in SubdivisionLandAreas, a \in {NULL, 400000, 450000}}

CallAnalyzeSubdivisionPotential ==
  /\ \E ld \in SubdivisionInputs, min_required \in SubdivisionMinLots :
       calc' = [fn |-> "analyze_subdivision_potential",
                arg |-> [listing_data |-> ld, min_required |-> min_required],
                out |-> analyze_subdivision_potential(ld, min_required)]
  /\ UNCHANGED PipelineVars

\* one function is applied once to one argument
FnNext ==
  /\ calc = NoCall
  /\ UNCHANGED sync
  /\ \/ CallFilterPrice
     \/ CallFilterPopulation
     \/ CallDecideStrategy
     \/ CallCalculateCompositeScore
     \/ CallAssignVerdict
     \/ CallCalculateFlipFinancials
     \/ CallCalculateRentalFinancials
     \/ CallRunStage3Financials
     \/ CallAnalyzeSubdivisionPotential

FnSpec == Init /\ [][FnNext]_vars

\* ------------------------------------------------ status under its lock
\* the fields each function assigns (get_status: reads), in its order
StatusFields ==
  [set_running |-> <<"running", "task", "message", "progress", "started_at",
                     "finished_at">>,
   update_progress |-> <<"message", "progress">>,
   set_idle |-> <<"running", "task", "message", "progress", "finished_at">>,
   get_status |-> <<"running", "task", "message", "progress", "started_at",
                    "finished_at">>]

\* with _lock: without waiting for the lock
with_lock_unguarded(t) == TRUE

\* with _lock: the thread goes on when the lock is free
with_lock(t) == sync._lock = ""

\* the values a call of one of the writing functions assigns
StatusWrites ==
  {[fn |-> "set_running", new |-> set_running("analyze", "Analyzing", << >>)],
   [fn |-> "update_progress",
    new |-> update_progress(status, "Analyzing: listing", 1, 1)],
   [fn |-> "set_idle", new |-> set_idle(status)]}

\* a worker enters set_running, update_progress or set_idle
StatusWriteEnter(t) ==
  /\ sync.call[t].fn = "none"
  /\ with_lock(t)
  /\ \E c \in StatusWrites :
       sync' = [sync EXCEPT !._lock = t,
                            !.call[t] = [fn |-> c.fn, k |-> 1, new |-> c.new]]
  /\ UNCHANGED status

\* _status[field] = value
StatusWriteField(t) ==
  LET c == sync.call[t]
  IN /\ c.fn \in {"set_running", "update_progress", "set_idle"}
     /\ c.k <= Len(StatusFields[c.fn])
     /\ status' = [status EXCEPT ![StatusFields[c.fn][c.k]] =
                                    c.new[StatusFields[c.fn][c.k]]]
     /\ sync' = [sync EXCEPT !.call[t].k = c.k + 1]

\* the end of the with block of a writing function
StatusWriteExit(t) ==
  LET c == sync.call[t]
  IN /\ c.fn \in {"set_running", "update_progress", "set_idle"}
     /\ c.k > Len(StatusFields[c.fn])
     /\ sync' = [sync EXCEPT !._lock = "", !.call[t] = NoStatusCall,
                             !.wholes = @ \cup {status}]
     /\ UNCHANGED status

get_status_enter(t) ==
  /\ sync.call[t].fn = "none"
  /\ with_lock(t)
  /\ sync' = [sync EXCEPT !._lock = t,
                          !.call[t] = [fn |-> "get_status", k |-> 1,
                                       new |-> IdleStatus]]
  /\ UNCHANGED status

\* "field": _status["field"], one entry of the dict being built
get_status_field(t) ==
  LET c == sync.call[t]
  IN /\ c.fn = "get_status"
     /\ c.k <= Len(StatusFields.get_status)
     /\ sync' = [sync EXCEPT !.call[t].k = c.k + 1,
                             !.call[t].new[StatusFields.get_status[c.k]] =
                                status[StatusFields.get_status[c.k]]]
     /\ UNCHANGED status

get_status_return(t) ==
  LET c == sync.call[t]
  IN /\ c.fn = "get_status"
     /\ c.k > Len(StatusFields.get_status)
     /\ sync' = [sync EXCEPT !._lock = "", !.call[t] = NoStatusCall,
                             !.ret = c.new]
     /\ UNCHANGED status

StatusNext ==
  /\ UNCHANGED <<listings, analyses, task, scrapes, calc>>
  /\ \/ \E t \in StatusWriters :
          \/ StatusWriteEnter(t)
          \/ StatusWriteField(t)
          \/ StatusWriteExit(t)
     \/ \E t \in StatusReaders :
          \/ get_status_enter(t)
          \/ get_status_field(t)
          \/ get_status_return(t)

StatusSpec == Init /\ [][StatusNext]_vars

\* ------------------------------------------------------------ properties
\* analyze_listing is running for listing l, or its caller has not yet
\* handled how it ended
BeingProcessed(l) ==
  \E w \in Workers :
    /\ task[w].cur = l
    /\ task[w].pc \in {"s1", "s2", "s3", "returned", "raised"}

\* the positions of a task inside analyze_pending_listings
BatchPcs == {"loop", "s1", "s2", "s3", "returned", "raised"}

\* C1: at both entry points that process one listing, a stage exception
\* leaves the listing failed (never in_progress once the call has returned)
\* and no exception leaves the processing call.  The batch loop's call has
\* returned when the loop is back at its head, the single-listing task's
\* when the task is over.
C1_StageExceptionMarksFailed ==
  \A w \in Workers :
    LET t == task[w]
    IN /\ (IsBatch(t) /\ t.pc = "loop" /\ t.raised)
            => listings[t.cur].analysis_status = "failed"
       /\ (t.kind = "single" /\ t.pc = "idle" /\ t.raised)
            => /\ listings[t.cur].analysis_status = "failed"
               /\ ~t.escaped

\* C2: a stage exception on one listing never aborts the batch: the
\* listings selected at the start are attempted in order, and when
\* analyze_pending_listings returns each of them is completed or failed
C2_BatchAttemptsAll ==
  \A w \in Workers :
    LET t == task[w]
    IN /\ (IsBatch(t) /\ t.pc = "loop")
            => t.attempted = SubSeq(t.pending, 1, t.idx - 1)
       /\ BatchReturned(t)
            => /\ t.attempted = t.pending
               /\ \A i \in 1..Len(t.pending) :
                    listings[t.pending[i]].analysis_status
                      \in {"completed", "failed"}

\* a batch has returned in which one listing failed and a later one was
\* still analysed to completion
C2_Witness ==
  \E w \in Workers :
    /\ BatchReturned(task[w])
    /\ \E i, j \in 1..Len(task[w].pending) :
         /\ i < j
         /\ listings[task[w].pending[i]].analysis_status = "failed"
         /\ listings[task[w].pending[j]].analysis_status = "completed"
         /\ analyses[task[w].pending[j]].composite_score # NULL

\* C3: whenever a listing is not being processed, an Analysis with a
\* non-null composite_score or a non-null rank belongs to a listing with
\* filter_status = passed and analysis_status = completed
C3_ScoreOnlyForPassedCompleted ==
  \A l \in ListingIds :
    (/\ ~BeingProcessed(l)
     /\ analyses[l].exists
     /\ analyses[l].composite_score # NULL \/ analyses[l].rank # NULL)
      => /\ listings[l].filter_status = "passed"
         /\ listings[l].analysis_status = "completed"

\* the ranks of the scored analyses are exactly 1..N without duplicates, a
\* lower rank never has the lower score, and unscored analyses have no rank
RankDense(as) ==
  LET S == ScoredAnalyses(as)
  IN /\ {as[l].rank : l \in S} = 1..Cardinality(S)
     /\ \A a, b \in S : a # b => as[a].rank # as[b].rank
     /\ \A a, b \in S :
          as[a].rank < as[b].rank
            => as[a].composite_score >= as[b].composite_score
     /\ \A l \in ListingIds \ S : as[l].rank = NULL

\* C4: immediately after _rerank_all the ranks of the scored analyses are
\* exactly 1..N, without gaps or duplicates, ordered by score descending,
\* and analyses without a score have no rank
C4_RerankDense ==
  \A w \in Workers : task[w].pc = "reranked" => RankDense(analyses)

\* _rerank_all has just ranked two analyses with different scores
C4_Witness ==
  \E w \in Workers :
    /\ task[w].pc = "reranked"
    /\ \E a, b \in ScoredAnalyses(analyses) :
         /\ analyses[a].composite_score > analyses[b].composite_score
         /\ analyses[a].rank = 1
         /\ analyses[b].rank = 2

\* C5: when a batch entry point returns, the full pipeline run and the
\* analyze-only batch alike, every scored analysis has a rank and the
\* ranks are the dense 1..N ordering by score descending
C5_RankedAfterEveryBatch ==
  \A w \in Workers :
    (IsBatch(task[w]) /\ task[w].pc = "idle") => RankDense(analyses)

\* _store_analysis has written the results of stage 2, and the stored
\* Analysis holds the fresh hashes
StoredIsResult(w) ==
  LET t == task[w]
      a == analyses[t.cur]
      l == listings[t.cur]
  IN (t.pc = "returned" /\ t.score # NULL)
       => /\ a.image_analysis = t.res.image_analysis
          /\ a.subdivision_analysis = t.res.subdivision
          /\ getattr_or_none(a, "vision_photos_hash")
               = <<_compute_photos_hash(l.photos)>>
          /\ getattr_or_none(a, "subdivision_input_hash")
               = <<_compute_subdivision_input_hash(_listing_to_dict(l))>>

\* C6: reprocessing a listing that has a stored Analysis with the same
\* photo set and the same address, district, region and land area finds
\* the stored hashes matching, invokes neither the image-analysis
\* collaborator nor the subdivision computation, and writes back an
\* image-derived result and a subdivision result identical to the stored
\* ones
C6_SamePhotoSetReuses ==
  \A w \in Workers :
    LET t == task[w]
        l == listings[t.cur]
        ex == analyses[t.cur]
    IN (/\ t.pc = "s3"
        /\ ex.exists
        /\ Range(l.photos) = Range(ex.image_analysis.src)
        /\ ex.subdivision_analysis.src =
             _compute_subdivision_input_hash(_listing_to_dict(l)))
         => /\ getattr_or_none(ex, "vision_photos_hash")
                 = <<_compute_photos_hash(l.photos)>>
            /\ ~t.vision_invoked
            /\ ~t.subdiv_invoked
            /\ t.res.image_analysis = ex.image_analysis
            /\ t.res.subdivision = ex.subdivision_analysis

\* C7: on the next processing, a first-six photo set that differs from the
\* one hashed for the stored Analysis has the image-analysis collaborator
\* invoked again, a differing address, district, region or land area has
\* analyze_subdivision_potential invoked again, no stored value is reused
\* across a hash mismatch, and the new hash is stored with the new result
C7_MismatchRecomputes ==
  \A w \in Workers :
    LET t == task[w]
        l == listings[t.cur]
        ex == analyses[t.cur]
        ld == _listing_to_dict(l)
    IN /\ (t.pc = "s3" /\ ex.exists)
            => /\ Range(FirstPhotos(l.photos))
                    # Range(FirstPhotos(ex.image_analysis.src))
                    => /\ t.vision_invoked
                       /\ t.res.image_analysis.src = l.photos
               /\ ex.subdivision_analysis.src
                    # <<ld.address, ld.district, ld.region, ld.land_area>>
                    => /\ t.subdiv_invoked
                       /\ \E m \in ZoneMinLots :
                            t.res.subdivision = analyze_subdivision_potential(ld, m)
       /\ t.pc = "s3"
            => /\ _compute_photos_hash(t.res.image_analysis.src)
                    = t.res.vision_photos_hash
               /\ t.res.subdivision.src = t.res.subdivision_input_hash
       /\ StoredIsResult(w)

\* C8: a batch run selects exactly the listings that are pending or failed
\* when it starts, and no step of analyze_pending_listings changes a
\* listing outside that selection or its Analysis
C8_BatchLeavesOthers ==
  [][\A w \in Workers :
       /\ (task[w].pc = "select" /\ task'[w].pc = "loop")
            => Range(task'[w].pending)
                 = {l \in ListingIds :
                      /\ listings[l].exists
                      /\ listings[l].analysis_status \in {"pending", "failed"}}
       /\ (/\ IsBatch(task[w])
           /\ task[w].pc \in BatchPcs
           /\ task'[w].pc \in BatchPcs)
            => \A l \in ListingIds \ Range(task[w].pending) :
                 /\ listings'[l] = listings[l]
                 /\ analyses'[l] = analyses[l]]_vars

\* a batch is analysing a listing while another one, completed or
\* in_progress, was not selected
C8_Witness ==
  \E w \in Workers :
    /\ IsBatch(task[w])
    /\ task[w].pc = "returned"
    /\ \E l \in ListingIds \ Range(task[w].pending) :
         /\ listings[l].exists
         /\ listings[l].analysis_status \in {"completed", "in_progress"}

\* a step of the single-listing analysis task
SingleStep ==
  \E w \in Workers : task'[w] # task[w] /\ task'[w].kind = "single"

\* a rejected listing stays rejected and gets no composite score
StaysRejected ==
  \A l \in ListingIds :
    listings[l].filter_status = "rejected"
      => /\ listings'[l].filter_status = "rejected"
         /\ analyses[l].composite_score = NULL
              => analyses'[l].composite_score = NULL

FilterChain == <<"price", "title", "population">>

FilterAnswer(name, l) ==
  CASE name = "price" -> filter_price(l)
    [] name = "title" -> filter_title(l)
    [] name = "population" -> <<filter_population(l)[1], filter_population(l)[2]>>

Rejecting(l) == {i \in 1..3 : FilterAnswer(FilterChain[i], l)[1] = REJECT}

\* C10: the filters run in the order price, title, population; the first
\* that rejects ends the chain, the listing becomes rejected with that
\* filter's reason and no later stage runs; the listing becomes passed
\* only when all three pass
C10_FilterChain ==
  \A w \in Workers :
    LET t == task[w]
        l == listings[t.cur]
    IN (t.pc \in {"s2", "s3", "returned", "raised"} /\ t.filters_run # << >>)
         => IF Rejecting(l) = {}
            THEN /\ t.filters_run = FilterChain
                 /\ l.filter_status = "passed"
                 /\ t.pc # "s2" \/ t.stages = <<"filters">>
            ELSE LET k == CHOOSE i \in Rejecting(l) :
                            \A j \in Rejecting(l) : i <= j
                 IN /\ t.filters_run = SubSeq(FilterChain, 1, k)
                    /\ l.filter_status = "rejected"
                    /\ l.filter_rejection_reason
                         = FilterAnswer(FilterChain[k], l)[2]
                    /\ l.analysis_status = "completed"
                    /\ t.pc = "returned"
                    /\ t.stages = <<"filters">>
                    /\ ~t.vision_invoked /\ ~t.subdiv_invoked
                    /\ t.score = NULL

\* the title filter rejected a listing the population filter would reject
\* too, and the population filter was not evaluated
C10_Witness ==
  \E w \in Workers :
    /\ task[w].pc = "returned"
    /\ task[w].filters_run = <<"price", "title">>
    /\ filter_population(listings[task[w].cur])[1] = REJECT
    /\ listings[task[w].cur].filter_rejection_reason
         = filter_title(listings[task[w].cur])[2]

\* the effective purchase price: the asking price if positive, else the
\* parsed capital value, else the parsed market-estimate midpoint
EffectivePrice(l) ==
  IF l.asking_price # NULL /\ l.asking_price > 0 THEN l.asking_price
  ELSE IF _parse_capital_value(l.capital_value) # NULL
       THEN _parse_capital_value(l.capital_value)
  ELSE _parse_market_estimate(l.estimated_market_price)

C12_RegionFallbackPair ==
  calc.fn = "filter_population"
    => LET l == calc.arg
       IN (/\ l.district \notin DOMAIN NZ_TA_POPULATIONS
           /\ l.region \in DOMAIN NZ_TA_POPULATIONS)
            => /\ calc.out[3].current_pop = NZ_TA_POPULATIONS[l.region]
               /\ l.region \in DOMAIN NZ_TA_GROWTH
                    => calc.out[3].growth_rate = NZ_TA_GROWTH[l.region]

\* the label without its subdivision suffix
BaseLabel(recommended) ==
  CASE recommended \in {"FLIP", "FLIP_WITH_SUBDIVISION"} -> "FLIP"
    [] recommended \in {"RENTAL", "RENTAL_WITH_SUBDIVISION"} -> "RENTAL"
    [] recommended \in {"PASS", "PASS_WITH_SUBDIVISION"} -> "PASS"

HasSubdivisionSuffix(recommended) ==
  recommended \in {"FLIP_WITH_SUBDIVISION", "RENTAL_WITH_SUBDIVISION",
                   "PASS_WITH_SUBDIVISION"}

\* the thresholds by risk tolerance: flip ROI, rental yield
TierFlip(risk) == CASE risk = "LOW" -> 1800 [] risk = "MODERATE" -> 1500
                    [] risk = "HIGH" -> 1200
TierRental(risk) == CASE risk = "LOW" -> 1000 [] risk = "MODERATE" -> 900
                      [] risk = "HIGH" -> 800

\* the ordered rule for flip ROI f and yield y against thresholds ft, yt
OrderedRule(f, y, ft, yt, favors, base) ==
  /\ (f >= ft /\ y >= yt) =>
       base = (IF 2 * f > 3 * y /\ favors THEN "FLIP" ELSE "RENTAL")
  /\ (f >= ft /\ y < yt) => base = (IF favors THEN "FLIP" ELSE "PASS")
  /\ (f < ft /\ y >= yt) => base = "RENTAL"
  /\ (f < ft /\ y < yt) => base = "PASS"

\* C13: decide_strategy follows the ordered rule for every flip ROI,
\* rental yield, risk tolerance and market trend, with the thresholds LOW
\* 18/10, MODERATE 15/9, HIGH 12/8 whatever the trend; under COOLING the
\* base label is never FLIP, and 20 / 5 / MODERATE / STABLE gives FLIP
C13_OrderedRuleFixedThresholds ==
  calc.fn = "decide_strategy" =>
    LET a == calc.arg
        base == BaseLabel(calc.out.recommended_strategy)
    IN /\ OrderedRule(a.flip_roi, a.rental_yield, TierFlip(a.risk_tolerance),
                      TierRental(a.risk_tolerance), a.trend # "COOLING", base)
       /\ a.trend = "COOLING" => base # "FLIP"
       /\ (a.flip_roi = 2000 /\ a.rental_yield = 500
           /\ a.risk_tolerance = "MODERATE" /\ a.trend = "STABLE")
            => base = "FLIP"

\* C13, amended: the same rule with the flip threshold one point lower
\* under a HEATING trend and the rental threshold half a point lower under
\* a COOLING trend
C13_OrderedRuleNudgedThresholds ==
  calc.fn = "decide_strategy" =>
    LET a == calc.arg
        base == BaseLabel(calc.out.recommended_strategy)
        ft == TierFlip(a.risk_tolerance) - (IF a.trend = "HEATING" THEN 100 ELSE 0)
        yt == TierRental(a.risk_tolerance) - (IF a.trend = "COOLING" THEN 50 ELSE 0)
    IN /\ OrderedRule(a.flip_roi, a.rental_yield, ft, yt,
                      a.trend # "COOLING", base)
       /\ a.trend = "COOLING" => base # "FLIP"
       /\ (a.flip_roi = 2000 /\ a.rental_yield = 500
           /\ a.risk_tolerance = "MODERATE" /\ a.trend = "STABLE")
            => base = "FLIP"

\* a flip ROI of 14.5 under MODERATE and a HEATING trend has been decided,
\* and the decision is FLIP
C13_Witness ==
  /\ calc.fn = "decide_strategy"
  /\ calc.arg.flip_roi = 1450
  /\ calc.arg.rental_yield = 500
  /\ calc.arg.risk_tolerance = "MODERATE"
  /\ calc.arg.trend = "HEATING"
  /\ BaseLabel(calc.out.recommended_strategy) = "FLIP"

\* C14: the recommended label has the suffix _WITH_SUBDIVISION exactly
\* when the subdivision result has subdivision_potential and a
\* net_value_add above zero, and its base label is the one the same call
\* gives without any subdivision result
C14_SubdivisionSuffix ==
  calc.fn = "decide_strategy" =>
    LET a == calc.arg
        rec == calc.out.recommended_strategy
        plain == decide_strategy([roi_percentage |-> a.flip_roi],
                                 [gross_yield_percentage |-> a.rental_yield],
                                 NoSubdivision, a.trend, a.risk_tolerance)
    IN /\ HasSubdivisionSuffix(rec)
            <=> (a.subdivision.subdivision_potential
                 /\ a.subdivision.net_value_add > 0)
       /\ BaseLabel(rec) = plain.recommended_strategy
       /\ plain.recommended_strategy \in {"FLIP", "RENTAL", "PASS"}

\* a PASS decision has taken the suffix from a viable subdivision with a
\* positive value-add
C14_Witness ==
  /\ calc.fn = "decide_strategy"
  /\ calc.arg.subdivision.subdivision_potential
  /\ calc.arg.subdivision.net_value_add > 0
  /\ calc.out.recommended_strategy = "PASS_WITH_SUBDIVISION"

InRange(score) == 0 <= score /\ score <= 100 * ScoreScale

\* C15: for every input the pipeline can hand to calculate_composite_score,
\* a viable subdivision with a negative net value-add and a negative flip
\* ROI included, each of the six component scores is in [0, 100] and so
\* is the composite score
C15_ScoresInRange ==
  calc.fn = "calculate_composite_score" =>
    /\ \A k \in DOMAIN calc.out.component_scores :
         InRange(calc.out.component_scores[k])
    /\ InRange(calc.out.composite_score)

\* C16: the verdict is STRONG_BUY from a composite of 75, BUY from 55,
\* MAYBE from 35 and PASS under 35, each lower bound inclusive, except
\* that the recommendation PASS without suffix and a composite under 40
\* give PASS
C16_VerdictBands ==
  calc.fn = "_assign_verdict" =>
    LET c == calc.arg.composite
        rec == calc.arg.recommended_strategy
    IN calc.out =
         (IF rec = "PASS" /\ c < 40 * ScoreScale THEN "PASS"
          ELSE IF c >= 75 * ScoreScale THEN "STRONG_BUY"
          ELSE IF c >= 55 * ScoreScale THEN "BUY"
          ELSE IF c >= 35 * ScoreScale THEN "MAYBE"
          ELSE "PASS")

\* a recommendation of PASS without suffix and a composite in [35, 40)
\* have got the verdict PASS
C16_Witness ==
  /\ calc.fn = "_assign_verdict"
  /\ calc.arg.recommended_strategy = "PASS"
  /\ calc.arg.composite >= 35 * ScoreScale
  /\ calc.arg.composite < 40 * ScoreScale
  /\ calc.out = "PASS"

\* the fields of a flip result that hold an amount of money, a rate or a
\* percentage
FlipAmountFields ==
  {"purchase_price", "renovation_cost", "gst_refund", "net_reno_cost", "arv",
   "interest_rate", "interest_cost", "insurance_cost", "rates_cost",
   "purchase_costs", "commission", "legal_sell", "marketing", "accounting",
   "total_expenses", "gross_profit", "tax", "net_profit", "cash_invested",
   "roi_percentage"}

\* C17: calculate_flip_financials on a missing or non-positive purchase
\* price returns a result whose monetary, rate and percentage fields are
\* all zero and whose meets_15_roi is false, whatever the other inputs and
\* the interest-rate override; on a positive price, tax is zero and net
\* profit equals gross profit when gross profit is not positive
C17_FlipEmptyAllZero ==
  calc.fn = "calculate_flip_financials" =>
    /\ OrZero(calc.arg.price_display) <= 0 =>
         /\ \A k \in FlipAmountFields : calc.out[k] = 0
         /\ ~calc.out.meets_15_roi
    /\ OrZero(calc.arg.price_display) > 0 =>
         /\ calc.out.gross_profit <= 0 =>
              (calc.out.tax = 0 /\ calc.out.net_profit = calc.out.gross_profit)
         /\ calc.out.tax # 0 => calc.out.gross_profit > 0

\* the fields of a rental result that hold an amount of money or a yield
RentalAmountFields ==
  {"purchase_price", "renovation_cost", "purchase_costs", "total_invested",
   "target_valuation", "weekly_rent", "annual_rent", "accounting", "bank_fees",
   "insurance", "annual_interest", "tax_deductible_interest",
   "property_management", "annual_rates", "repairs", "total_expenses",
   "net_cash_surplus", "chattels_depreciation", "taxable_income", "tax_refund",
   "tax_owed", "overall_annual_cashflow", "gross_yield_percentage",
   "net_yield_percentage"}

\* C18: calculate_rental_financials returns a result whose monetary and
\* yield fields are all zero and whose meets_9_yield is false whenever the
\* purchase price is missing or not positive or the weekly rent is missing
\* or not positive; and stage 3 on a listing without any parseable price
\* gives flip ROI 0, rental yield 0 and the base strategy PASS
C18_RentalEmptyAllZero ==
  /\ (/\ calc.fn = "calculate_rental_financials"
      /\ \/ OrZero(calc.arg.price_display) <= 0
         \/ OrZero(calc.arg.analysis.rental.estimated_weekly_rent) <= 0)
         => /\ \A k \in RentalAmountFields : calc.out[k] = 0
            /\ ~calc.out.meets_9_yield
  /\ (/\ calc.fn = "_run_stage3_financials"
      /\ get_effective_asking_price(calc.arg.listing) = NULL)
         => /\ calc.out.flip.roi_percentage = 0
            /\ calc.out.rental.gross_yield_percentage = 0
            /\ \A k \in RentalAmountFields : calc.out.rental[k] = 0
            /\ BaseLabel(calc.out.strategy.recommended_strategy) = "PASS"

\* stage 3 has run on a listing without any parseable price, for which
\* stage 2 had estimated a rent and a resale value
C18_Witness ==
  /\ calc.fn = "_run_stage3_financials"
  /\ get_effective_asking_price(calc.arg.listing) = NULL
  /\ filter_price(calc.arg.listing)[1] = PASS
  /\ calc.arg.analysis.rental_income.estimated_weekly_rent = 800
  /\ calc.arg.analysis.arv.estimated_arv = 600000
  /\ calc.out.rental = _empty_rental_result
  /\ calc.out.strategy.recommended_strategy = "PASS"

\* C19: the four status functions run under one exclusive lock: at most
\* one of them is inside its with block, and what get_status returns is
\* the status after a whole number of completed writes, never fields of
\* before and after one write
C19_StatusSnapshotWhole ==
  /\ sync.ret \in sync.wholes
  /\ \A t \in StatusThreads :
       sync.call[t].fn # "none" => sync._lock = t

\* get_status has returned the status of a completed set_running followed
\* by a completed update_progress, and a worker is now part-way through
\* another write
C19_Witness ==
  /\ sync.ret.running
  /\ sync.ret.message = "Analyzing: listing"
  /\ \E t \in StatusWriters :
       /\ sync.call[t].fn = "set_idle"
       /\ sync.call[t].k > 1
  /\ status \notin sync.wholes

\* the batch of task t has just finished a listing that is not its last
BetweenListings(t) ==
  /\ IsBatch(t)
  /\ t.pc = "loop"
  /\ t.cur # 0
  /\ t.idx <= Len(t.pending)

\* the listing the task has just finished passed the filters in this run,
\* so that analyze_listing went on to enrichment
ReachedEnrichment(t) ==
  /\ t.filters_run # << >>
  /\ listings[t.cur].filter_status = "passed"

\* C20: in a batch run with the openai provider and a positive delay,
\* after every listing that reached enrichment, except the last of the
\* batch, the loop has slept before it starts the next listing, also when
\* the listing ended in failed; so a sleep lies between any two
\* consecutive invocations of the image-analysis collaborator
C20_SleepBetweenVisionCalls ==
  \A w \in Workers :
    (BetweenListings(task[w]) /\ vision_provider = "openai"
     /\ vision_rate_limit_delay_seconds > 0)
      => /\ ReachedEnrichment(task[w]) => task[w].slept
         /\ task[w].vision_invoked => task[w].slept

\* a batch of two has finished its first listing, which called the
\* image-analysis collaborator and then ended in failed, and has slept
C20_Witness ==
  \E w \in Workers :
    /\ BetweenListings(task[w])
    /\ Len(task[w].pending) = 2
    /\ task[w].vision_invoked
    /\ listings[task[w].cur].analysis_status = "failed"
    /\ task[w].slept

\* C21: after a re-rank, of two analyses with equal composite scores the
\* one of the listing inserted earlier (the smaller id) has the smaller
\* rank, so that the ranks of a given set of scored analyses are unique
C21_TiesInInsertionOrder ==
  \A w \in Workers :
    task[w].pc = "reranked" =>
      \A a, b \in ScoredAnalyses(analyses) :
        (a < b /\ analyses[a].composite_score = analyses[b].composite_score)
          => analyses[a].rank < analyses[b].rank

\* C22: analyze_subdivision_potential gives subdivision_potential true
\* only for a land area above twice the minimum lot size; a land area of
\* exactly twice the minimum, a smaller one or an unknown one gives
\* subdivision_potential false and net_value_add 0
C22_StrictlyMoreThanTwoLots ==
  calc.fn = "analyze_subdivision_potential" =>
    LET land_area == calc.arg.listing_data.land_area
        two_lots == 2 * calc.arg.min_required
    IN /\ calc.out.subdivision_potential
            => (land_area # NULL /\ land_area > two_lots)
       /\ (land_area = NULL \/ land_area <= two_lots)
            => (~calc.out.subdivision_potential /\ calc.out.net_value_add = 0)

\* C23: the subdivision input hash covers every listing fact the
\* subdivision result depends on, the effective asking price included:
\* any listing with the same hash gets the same result from
\* analyze_subdivision_potential, so that a result reused under an
\* unchanged hash equals a fresh one
C23_HashCoversSubdivisionInputs ==
  calc.fn = "analyze_subdivision_potential" =>
    \A other \in SubdivisionInputs :
      _compute_subdivision_input_hash(other)
          = _compute_subdivision_input_hash(calc.arg.listing_data)
        => analyze_subdivision_potential(other, calc.arg.min_required) = calc.out

\* ------------------------------------------------------------ concurrent runs
\* FastAPI background tasks and the scheduler job run in threads of their
\* own, each with its own database session: two workers take the steps of
\* the batch and of the single-listing analysis in any interleaving.  The
\* store starts with the listings a finished scrape task has left pending

\* the listings the scrape task has stored
ConcListingIds == {1}

\* the store and the status after a scrape task that stored one listing
ConcInit ==
  /\ listings = [l \in ListingIds |->
                   IF l \in ConcListingIds
                   THEN _store_listing(NoListing, BaseDetails) ELSE NoListing]
  /\ analyses = [l \in ListingIds |-> NoAnalysis]
  /\ task = [w \in Workers |-> IdleTask]
  /\ status = set_idle(set_running("scrape", "Scraping...", <<0, 1>>))
  /\ scrapes = Cardinality(ConcListingIds)
  /\ calc = NoCall
  /\ sync = NoSync

\* stage 3, calculate_composite_score and the query of _store_analysis:
\* the task remembers whether its session found an Analysis of the listing
StoreQuery(w) ==
  /\ task[w].pc = "s3"
  /\ \/ Raise(w)
     \/ \E score \in Scores :
          /\ task' = [task EXCEPT
                        ![w].pc = IF analyses[task[w].cur].exists
                                  THEN "store_update" ELSE "store_insert",
                        ![w].score = score,
                        ![w].stages = @ \o <<"financials", "scoring">>]
          /\ UNCHANGED <<listings, analyses, status, scrapes>>

\* the commit of _store_analysis, then analysis_status = "completed";
\* commit.  The INSERT of a second Analysis of one listing violates the
\* unique constraint of Analysis.listing_id: the commit raises
\* IntegrityError, the session rolls back and nothing of the run is stored
StoreCommit(w) ==
  /\ task[w].pc \in {"store_insert", "store_update"}
  /\ LET l == task[w].cur
     IN IF task[w].pc = "store_insert" /\ analyses[l].exists
        THEN /\ task' = [task EXCEPT ![w].pc = "raised", ![w].raised = TRUE,
                                     ![w].stages = Append(@, "IntegrityError")]
             /\ UNCHANGED <<listings, analyses, status, scrapes>>
        ELSE /\ analyses' = [analyses EXCEPT ![l] =
                               _store_analysis(analyses[l], task[w].res,
                                               task[w].score)]
             /\ listings' = [listings EXCEPT ![l].analysis_status = "completed"]
             /\ task' = [task EXCEPT ![w].pc = "returned",
                                     ![w].stages = Append(@, "store")]
             /\ UNCHANGED <<status, scrapes>>

ConcNext ==
  /\ UNCHANGED <<calc, sync>>
  /\ \E w \in Workers :
       \/ StartAnalyzeTask(w)
       \/ SelectPending(w)
       \/ BatchNext(w)
       \/ \E l \in ListingIds : StartSingleAnalysis(w, l)
       \/ AnalyzeStage1(w)
       \/ AnalyzeStage2(w)
       \/ StoreQuery(w)
       \/ StoreCommit(w)
       \/ BatchAfterListing(w)
       \/ AnalyzeTaskFinish(w)
       \/ SingleFinish(w)

ConcSpec == ConcInit /\ [][ConcNext]_vars

\* the task is inside analyze_listing
InAnalyzeListing(t) ==
  t.pc \in {"s1", "s2", "s3", "store_insert", "store_update", "returned", "raised"}

\* C24: of two batch runs in flight together, at most one analyses a
\* given listing: no two runs are inside analyze_listing for the same
\* listing, and the image analysis is not invoked for it by both
C24_OneRunPerListing ==
  \A w1, w2 \in Workers :
    (/\ w1 # w2
     /\ IsBatch(task[w1]) /\ IsBatch(task[w2])
     /\ InAnalyzeListing(task[w1]) /\ InAnalyzeListing(task[w2]))
      => /\ task[w1].cur # task[w2].cur
         /\ ~(task[w1].vision_invoked /\ task[w2].vision_invoked)

\* the run lost the race of two INSERTs and its except clause is over
LostInsertRace(t) ==
  /\ IsBatch(t)
  /\ t.pc = "loop"
  /\ t.stages # << >>
  /\ t.stages[Len(t.stages)] = "IntegrityError"

InFlight(t) ==
  \/ t.kind = "single" /\ InAnalyzeListing(t)
  \/ t.kind = "analyze" /\ t.pending # << >> /\ (t.pc = "loop" \/ InAnalyzeListing(t))

\* C26: while a background task is between its set_running and its final
\* set_idle the status says running, also after another task has finished,
\* and no status has a progress with running false
C26_RunningWhileInFlight ==
  /\ (\E w \in Workers : InFlight(task[w])) => status.running
  /\ status.progress # << >> => status.running

\* ------------------------------------------------------------ task ends, fairly
\* a background task is a thread that keeps running: a step of the one
\* worker that can be taken is taken
LiveSpec == Spec /\ WF_vars(Next)

\* running is true exactly when a task is named, and a running status has
\* no finished_at
StatusConsistent(st) ==
  /\ st.running <=> st.task # ""
  /\ st.running => st.finished_at = ""

StoredHashMatches(l) ==
  /\ analyses[l].exists
  /\ getattr_or_none(analyses[l], "vision_photos_hash")
       = <<_compute_photos_hash(listings[l].photos)>>

\* C28: the image analysis of a run reaches the store only in the last
\* step of a successful analyze_listing; a run that fails stores nothing,
\* whether or not the image analysis was invoked; and a run that gets
\* through enrichment, a retry included, has invoked the image analysis
\* unless a stored Analysis has the matching photos hash
C28_ImageStoredOnlyOnSuccess ==
  [][/\ \A l \in ListingIds :
          (\/ analyses'[l].exists # analyses[l].exists
           \/ analyses'[l].image_analysis # analyses[l].image_analysis)
            => \E w \in Workers :
                 /\ task[w].cur = l
                 /\ task[w].pc = "s3"
                 /\ task'[w].pc = "returned"
                 /\ listings'[l].analysis_status = "completed"
     /\ \A w \in Workers :
          /\ (task[w].pc # "raised" /\ task'[w].pc = "raised")
               => analyses' = analyses
          /\ (task[w].pc = "s2" /\ task'[w].pc = "s3")
               => (task'[w].vision_invoked \/ StoredHashMatches(task[w].cur))
    ]_vars

\* a batch has caught the failure of a listing after the image analysis
\* was invoked: the listing is failed, waits for the retry and has no
\* Analysis
C28_Witness ==
  \E w \in Workers :
    /\ IsBatch(task[w])
    /\ task[w].pc = "loop"
    /\ task[w].raised
    /\ task[w].vision_invoked
    /\ listings[task[w].cur].analysis_status = "failed"
    /\ ~analyses[task[w].cur].exists

\* C29: a listing that is not being processed has a rejection reason
\* exactly when its filter_status is rejected; a listing that passes the
\* filters after an earlier rejection does not keep the old reason
C29_ReasonIffRejected ==
  \A l \in ListingIds :
    (listings[l].exists /\ ~BeingProcessed(l))
      => (listings[l].filter_rejection_reason # ""
            <=> listings[l].filter_status = "rejected")

\* C30: the verdict calculate_composite_score returns, which is stored
\* with the composite_score it returns, is the verdict of the bands for
\* that rounded composite_score
C30_VerdictOfStoredScore ==
  calc.fn = "calculate_composite_score" =>
    calc.out.verdict
      = _assign_verdict(calc.out.composite_score, calc.arg.strategy_decision)

====
